---- MODULE Spec2Model ----
(***************************************************************************)
(* Aviationstack MCP server: the fetch client (client.py) and the tool     *)
(* dispatcher (server.py handle_call_tool / get_client).                   *)
(*                                                                         *)
(* Values follow Python/JSON: a JSON value is a tagged record, a string    *)
(* whose characters the code inspects is a tuple of one-character strings, *)
(* and an exception leaving a function is a record with kind "raise".      *)
(***************************************************************************)
EXTENDS Integers, Sequences, FiniteSets, TLC

\* ------------------------------------------------------------------ bounds
\* Largest AVIATIONSTACK_MAX_RETRIES explored (the smallest is -1).
MaxRetriesBound == 2
\* Largest `data` array length among the modelled response bodies.
MaxItems == 2

\* ------------------------------------------------------------ JSON values
JNull == [t |-> "null"]
JStr(s) == [t |-> "str", s |-> s]
JInt(n) == [t |-> "int", n |-> n]
JFloat(n) == [t |-> "float", f |-> n]
JArr(a) == [t |-> "arr", a |-> a]
JObj(o) == [t |-> "obj", o |-> o]
\* A response body that response.json() cannot decode.
NotJson == [t |-> "notjson"]
\* The empty dict {}.
EmptyDict == JObj(<<>>)

\* Python truthiness of a JSON value (`data.get("error")`, `x or default`).
Truthy(v) ==
  CASE v.t = "null" -> FALSE
    [] v.t = "str" -> Len(v.s) > 0
    [] v.t = "int" -> v.n # 0
    [] v.t = "float" -> v.f # 0
    [] v.t = "arr" -> Len(v.a) > 0
    [] v.t = "obj" -> DOMAIN v.o # {}
    [] OTHER -> TRUE

\* isinstance(v, dict) / isinstance(v, list)
IsDict(v) == v.t = "obj"
IsList(v) == v.t = "arr"

\* dict.get(key, default)
DictGet(d, key, default) == IF key \in DOMAIN d.o THEN d.o[key] ELSE default

\* `a or b`
PyOr(a, b) == IF Truthy(a) THEN a ELSE b

\* ---------------------------------------------------------------- strings
\* "rate_limit", "quota_reached", "rate limit" (client.py line 201)
S_rate_limit == <<"r","a","t","e","_","l","i","m","i","t">>
S_quota_reached == <<"q","u","o","t","a","_","r","e","a","c","h","e","d">>
S_rate_limit_phrase == <<"r","a","t","e"," ","l","i","m","i","t">>
S_None == <<"N","o","n","e">>

UpperChars == <<"A","B","C","D","E","F","G","H","I","J","K","L","M",
                "N","O","P","Q","R","S","T","U","V","W","X","Y","Z">>
LowerChars == <<"a","b","c","d","e","f","g","h","i","j","k","l","m",
                "n","o","p","q","r","s","t","u","v","w","x","y","z">>
DigitChars == <<"0","1","2","3","4","5","6","7","8","9">>

\* str.lower(), character by character
LowerChar(c) ==
  IF \E i \in 1..26 : UpperChars[i] = c
    THEN LowerChars[CHOOSE i \in 1..26 : UpperChars[i] = c]
    ELSE c
Lower(s) == [i \in 1..Len(s) |-> LowerChar(s[i])]

\* `sub in s` for strings
Contains(s, sub) ==
  \E i \in 1..(Len(s) - Len(sub) + 1) : SubSeq(s, i, i + Len(sub) - 1) = sub

\* str(n) for a non-negative integer
RECURSIVE Digits(_)
Digits(n) == IF n < 10 THEN <<DigitChars[n + 1]>>
             ELSE Digits(n \div 10) \o <<DigitChars[(n % 10) + 1]>>

\* str(v) of a JSON scalar (str(None) is "None")
PyStr(v) ==
  CASE v.t = "str" -> v.s
    [] v.t = "int" -> Digits(v.n)
    [] OTHER -> S_None

IsDigit(c) == \E i \in 1..10 : DigitChars[i] = c
DigitValue(c) == (CHOOSE i \in 1..10 : DigitChars[i] = c) - 1
RECURSIVE DecimalValue(_)
DecimalValue(s) == IF Len(s) = 0 THEN 0
                   ELSE 10 * DecimalValue(SubSeq(s, 1, Len(s) - 1)) + DigitValue(s[Len(s)])

\* float(header_value) on the header values modelled here: a non-empty run of
\* decimal digits parses to that number, anything else raises ValueError.
FloatParses(s) == Len(s) > 0 /\ \A i \in 1..Len(s) : IsDigit(s[i])
ParseFloat(s) == JFloat(DecimalValue(s))

\* ------------------------------------------------------- program constants
\* "aviationstack"
PROVIDER == JStr(<<"a","v","i","a","t","i","o","n","s","t","a","c","k">>)
\* DEFAULT_BASE_URL (client.py line 47)
DEFAULT_BASE_URL == <<"h","t","t","p",":","/","/","a","p","i",".","a","v","i","a","t","i","o","n","s","t","a","c","k",".","c","o","m","/","v","1","/">>
\* HTTP 429 Too Many Requests (client.py line 229)
HTTP_TOO_MANY_REQUESTS == 429
\* The 5xx range tested by `500 <= status < 600` (client.py line 249)
HTTP_SERVER_ERROR_MIN == 500
HTTP_SERVER_ERROR_END == 600
\* The 2xx range accepted by response.raise_for_status() (client.py line 106)
HTTP_SUCCESS_MIN == 200
HTTP_SUCCESS_MAX == 299

MSG_missing_api_key == JStr(<<"A","V","I","A","T","I","O","N","S","T","A","C","K","_","A","P","I","_","K","E","Y"," ","e","n","v","i","r","o","n","m","e","n","t"," ","v","a","r","i","a","b","l","e"," ","i","s"," ","n","o","t"," ","s","e","t">>)
MSG_max_retries_exceeded == JStr(<<"M","a","x","i","m","u","m"," ","r","e","t","r","y"," ","a","t","t","e","m","p","t","s"," ","e","x","c","e","e","d","e","d"," ","w","h","i","l","e"," ","c","a","l","l","i","n","g"," ","A","v","i","a","t","i","o","n","s","t","a","c","k">>)
MSG_body_default == JStr(<<"A","v","i","a","t","i","o","n","s","t","a","c","k"," ","r","e","p","o","r","t","e","d"," ","a","n"," ","e","r","r","o","r">>)
MSG_network_prefix == <<"N","e","t","w","o","r","k"," ","e","r","r","o","r"," ","w","h","i","l","e"," ","c","a","l","l","i","n","g"," ","A","v","i","a","t","i","o","n","s","t","a","c","k",":"," ">>
MSG_http_prefix == <<"H","T","T","P"," ">>
MSG_http_suffix == <<" ","f","r","o","m"," ","A","v","i","a","t","i","o","n","s","t","a","c","k">>

C_missing_api_key == JStr(<<"m","i","s","s","i","n","g","_","a","p","i","_","k","e","y">>)
C_network_error == JStr(<<"n","e","t","w","o","r","k","_","e","r","r","o","r">>)
C_max_retries_exceeded == JStr(<<"m","a","x","_","r","e","t","r","i","e","s","_","e","x","c","e","e","d","e","d">>)

\* ------------------------------------------------- results of a function
\* A function either returns a value or raises; AviationstackAPIError
\* carries its Error Payload in `error` (client.py lines 39-44).
Return(v) == [kind |-> "return", value |-> v]
RaiseAPIError(payload) == [kind |-> "raise", exc |-> "AviationstackAPIError", error |-> payload]
\* any other exception: its class and str(exc)
RaiseOther(exc, text) == [kind |-> "raise", exc |-> exc, text |-> text]
\* the loop goes on to line 144 with last_error set
Retry(error) == [kind |-> "retry", last_error |-> error]

\* type(v).__name__ of a decoded JSON value
PyTypeName(v) ==
  CASE v.t = "null" -> <<"N","o","n","e","T","y","p","e">>
    [] v.t = "str" -> <<"s","t","r">>
    [] v.t = "int" -> <<"i","n","t">>
    [] v.t = "float" -> <<"f","l","o","a","t">>
    [] v.t = "arr" -> <<"l","i","s","t">>
    [] OTHER -> <<"d","i","c","t">>
\* `v.get(...)` on a value that is no dict
NoGetAttribute(v) ==
  RaiseOther("AttributeError",
             <<"'">> \o PyTypeName(v) \o <<"'"," ","o","b","j","e","c","t"," ","h","a","s"," ","n","o"," ","a","t","t","r","i","b","u","t","e"," ","'","g","e","t","'">>)
\* response.json() on a body that is no JSON document
JsonDecodeError ==
  RaiseOther("JSONDecodeError", <<"E","x","p","e","c","t","i","n","g"," ","v","a","l","u","e",":"," ","l","i","n","e"," ","1"," ","c","o","l","u","m","n"," ","1"," ","(","c","h","a","r"," ","0",")">>)

\* AviationstackErrorPayload (client.py lines 27-36)
ErrorPayload(code, message, status_code, retryable, rate_limited, retry_after) ==
  [provider |-> PROVIDER, code |-> code, message |-> message,
   status_code |-> status_code, retryable |-> retryable,
   rate_limited |-> rate_limited, retry_after_seconds |-> retry_after]

\* from_env's payload (client.py lines 67-77)
MissingApiKeyError ==
  ErrorPayload(C_missing_api_key, MSG_missing_api_key, JNull, FALSE, FALSE, JNull)

\* the network-fault payload (client.py lines 131-139); exc is the exception text
NetworkError(exc) ==
  ErrorPayload(C_network_error, JStr(MSG_network_prefix \o exc), JNull, TRUE, FALSE, JNull)

\* the defensive payload (client.py lines 149-157)
MaxRetriesExceededError ==
  ErrorPayload(C_max_retries_exceeded, MSG_max_retries_exceeded, JNull, FALSE, FALSE, JNull)

\* ----------------------------------------------------------- classifiers
\* rate_limited of an embedded body error (client.py line 201)
\* the rate-limit test with the code compared as it was sent, not lowercased
Mut_BodyRateLimited_case_sensitive(code, message) ==
  \/ PyStr(code) \in {S_rate_limit, S_quota_reached}
  \/ Contains(Lower(PyStr(message)), S_rate_limit_phrase)

BodyRateLimited(code, message) ==
  \/ Lower(PyStr(code)) \in {S_rate_limit, S_quota_reached}
  \/ Contains(Lower(PyStr(message)), S_rate_limit_phrase)

\* _build_api_error_from_body (client.py lines 193-212): the exception it
\* returns, or the AttributeError of `.get` on a value that is no dict.
_build_api_error_from_body(body_error, status_code) ==
  IF ~IsDict(body_error) THEN NoGetAttribute(body_error)
  ELSE
    LET message == PyOr(DictGet(body_error, "message", JNull), MSG_body_default)
        code == DictGet(body_error, "code", JNull)
        rate_limited == BodyRateLimited(code, message)
    IN  RaiseAPIError(ErrorPayload(
          IF code # JNull THEN JStr(PyStr(code)) ELSE JNull,
          message, status_code, rate_limited, rate_limited, JNull))

\* "HTTP <status> from Aviationstack" (client.py line 217)
HttpStatusMessage(status) == JStr(MSG_http_prefix \o Digits(status) \o MSG_http_suffix)

\* rate_limited / retryable by status (client.py lines 229, 249)
StatusRateLimited(status) == status = HTTP_TOO_MANY_REQUESTS
\* retryable computed from the 5xx range alone, without `rate_limited or`
Mut_StatusRetryable_5xx_only(status) ==
  HTTP_SERVER_ERROR_MIN <= status /\ status < HTTP_SERVER_ERROR_END

\* the 5xx test with a strict lower bound (`500 < status`)
Mut_StatusRetryable_strict(status) ==
  StatusRateLimited(status)
    \/ (HTTP_SERVER_ERROR_MIN < status /\ status < HTTP_SERVER_ERROR_END)
StatusRetryable(status) ==
  StatusRateLimited(status)
    \/ (HTTP_SERVER_ERROR_MIN <= status /\ status < HTTP_SERVER_ERROR_END)

\* Retry-After read whatever the status is
Mut_RetryAfter_any_status(status, headers) ==
  IF "Retry-After" \in DOMAIN headers /\ FloatParses(headers["Retry-After"])
    THEN ParseFloat(headers["Retry-After"])
    ELSE JNull

\* retry_after of a status-line failure (client.py lines 230-238)
RetryAfter(status, headers) ==
  IF StatusRateLimited(status) /\ "Retry-After" \in DOMAIN headers
       /\ FloatParses(headers["Retry-After"])
    THEN ParseFloat(headers["Retry-After"])
    ELSE JNull

\* _build_error_from_http_status (client.py lines 214-252): the payload it
\* returns, or the AttributeError raised at line 242 when the body's `error`
\* is neither null nor a dict (the one raised at line 224 is swallowed).
_build_error_from_http_status(response) ==
  LET status == response.status
      payload == response.body
      has_error == IsDict(payload) /\ "error" \in DOMAIN payload.o
      body_error == IF has_error THEN payload.o["error"] ELSE JNull
      message == IF has_error /\ IsDict(body_error)
                   THEN DictGet(body_error, "message", HttpStatusMessage(status))
                   ELSE HttpStatusMessage(status)
      rate_limited == StatusRateLimited(status)
      retry_after == RetryAfter(status, response.headers)
  IN  IF body_error # JNull /\ ~IsDict(body_error) THEN NoGetAttribute(body_error)
      ELSE
        LET code == IF body_error # JNull THEN DictGet(body_error, "code", JNull) ELSE JNull
        IN  Return(ErrorPayload(
              IF code # JNull THEN JStr(PyStr(code)) ELSE JNull,
              message, JInt(status), StatusRetryable(status), rate_limited, retry_after))

\* _normalize_success reading meta.per_page from a "per_page" key of the
\* pagination object instead of "limit"
Mut_normalize_success_per_page_key(resource, data) ==
  IF ~IsDict(data) THEN NoGetAttribute(data)
  ELSE
    LET got == PyOr(DictGet(data, "data", JNull), JArr(<<>>))
        items == IF IsList(got) THEN got.a ELSE <<got>>
        pagination == PyOr(DictGet(data, "pagination", JNull), EmptyDict)
    IN  IF ~IsDict(pagination) THEN NoGetAttribute(pagination)
        ELSE Return([meta |-> [provider |-> PROVIDER,
                               resource |-> JStr(resource),
                               page |-> DictGet(pagination, "current_page", JNull),
                               per_page |-> DictGet(pagination, "per_page", JNull),
                               total |-> DictGet(pagination, "total", JNull)],
                     items |-> items,
                     raw |-> data])

\* _normalize_success (client.py lines 164-191): the payload, or the
\* AttributeError of `.get` on a body or a pagination that is no dict.
_normalize_success(resource, data) ==
  IF ~IsDict(data) THEN NoGetAttribute(data)
  ELSE
    LET got == PyOr(DictGet(data, "data", JNull), JArr(<<>>))
        items == IF IsList(got) THEN got.a ELSE <<got>>
        pagination == PyOr(DictGet(data, "pagination", JNull), EmptyDict)
    IN  IF ~IsDict(pagination) THEN NoGetAttribute(pagination)
        ELSE Return([meta |-> [provider |-> PROVIDER,
                               resource |-> JStr(resource),
                               page |-> DictGet(pagination, "current_page", JNull),
                               per_page |-> DictGet(pagination, "limit", JNull),
                               total |-> DictGet(pagination, "total", JNull)],
                     items |-> items,
                     raw |-> data])

\* _should_retry with the budget test off by one (`>` for `>=`)
Mut_should_retry_off_by_one(self, error, attempt) ==
  IF attempt > self.max_retries THEN FALSE
  ELSE IF error.rate_limited THEN TRUE
  ELSE error.retryable

\* _should_retry that forgets the `retryable` flag
Mut_should_retry_rate_limited_only(self, error, attempt) ==
  IF attempt >= self.max_retries THEN FALSE
  ELSE error.rate_limited

\* _should_retry (client.py lines 254-263)
_should_retry(self, error, attempt) ==
  IF attempt >= self.max_retries THEN FALSE
  ELSE IF error.rate_limited THEN TRUE
  ELSE error.retryable

\* ------------------------------------------------------------ schemas.py
\* TOOL_NAMES (schemas.py lines 54-60)
\* "aviationstack_get_flights"
TOOL_GET_FLIGHTS == <<"a","v","i","a","t","i","o","n","s","t","a","c","k","_","g","e","t","_","f","l","i","g","h","t","s">>
\* "aviationstack_get_airports"
TOOL_GET_AIRPORTS == <<"a","v","i","a","t","i","o","n","s","t","a","c","k","_","g","e","t","_","a","i","r","p","o","r","t","s">>
\* "aviationstack_get_airlines"
TOOL_GET_AIRLINES == <<"a","v","i","a","t","i","o","n","s","t","a","c","k","_","g","e","t","_","a","i","r","l","i","n","e","s">>
\* "aviationstack_get_routes"
TOOL_GET_ROUTES == <<"a","v","i","a","t","i","o","n","s","t","a","c","k","_","g","e","t","_","r","o","u","t","e","s">>
\* "aviationstack_get_airplanes"
TOOL_GET_AIRPLANES == <<"a","v","i","a","t","i","o","n","s","t","a","c","k","_","g","e","t","_","a","i","r","p","l","a","n","e","s">>

\* the resources "flights", "airports", "airlines", "routes", "airplanes"
R_flights == <<"f","l","i","g","h","t","s">>
R_airports == <<"a","i","r","p","o","r","t","s">>
R_airlines == <<"a","i","r","l","i","n","e","s">>
R_routes == <<"r","o","u","t","e","s">>
R_airplanes == <<"a","i","r","p","l","a","n","e","s">>

\* ENDPOINT_MAP (schemas.py lines 62-68), in insertion order
ENDPOINT_KEYS == <<TOOL_GET_FLIGHTS, TOOL_GET_AIRPORTS, TOOL_GET_AIRLINES,
                   TOOL_GET_ROUTES, TOOL_GET_AIRPLANES>>
ENDPOINT_MAP ==
  (TOOL_GET_FLIGHTS :> R_flights) @@ (TOOL_GET_AIRPORTS :> R_airports)
    @@ (TOOL_GET_AIRLINES :> R_airlines) @@ (TOOL_GET_ROUTES :> R_routes)
    @@ (TOOL_GET_AIRPLANES :> R_airplanes)

\* ', '.join(names)
RECURSIVE JoinComma(_)
JoinComma(names) ==
  IF Len(names) = 0 THEN <<>>
  ELSE IF Len(names) = 1 THEN names[1]
  ELSE names[1] \o <<",", " ">> \o JoinComma(Tail(names))

\* ------------------------------------------------------------- server.py
C_unknown_tool == JStr(<<"u","n","k","n","o","w","n","_","t","o","o","l">>)
C_unexpected_error == JStr(<<"u","n","e","x","p","e","c","t","e","d","_","e","r","r","o","r">>)
MSG_unknown_tool_prefix == <<"U","n","k","n","o","w","n"," ","t","o","o","l",":"," ">>
MSG_unknown_tool_valid == <<"."," ","V","a","l","i","d"," ","t","o","o","l","s",":"," ">>
MSG_unexpected_prefix == <<"U","n","e","x","p","e","c","t","e","d"," ","e","r","r","o","r"," ","i","n"," ","M","C","P"," ","s","e","r","v","e","r",":"," ">>

JBool(b) == [t |-> "bool", b |-> b]

\* json.dumps of an Error Payload dict: the JSON document written
DumpsErrorPayload(e) ==
  JObj([provider |-> e.provider, code |-> e.code, message |-> e.message,
        status_code |-> e.status_code, retryable |-> JBool(e.retryable),
        rate_limited |-> JBool(e.rate_limited),
        retry_after_seconds |-> e.retry_after_seconds])

\* json.dumps of an AviationstackSuccess dict
DumpsSuccess(p) ==
  JObj([meta |-> JObj(p.meta), items |-> JArr(p.items), raw |-> p.raw])

\* [TextContent(type="text", text=json.dumps(doc))]
TextResult(doc) == <<[type |-> "text", text |-> doc]>>

\* the unknown_tool error carrying the code of the catch-all handler
Mut_UnknownToolError_code(name) ==
  JObj([provider |-> PROVIDER, code |-> C_unexpected_error,
        message |-> JStr(MSG_unknown_tool_prefix \o name \o MSG_unknown_tool_valid
                           \o JoinComma(ENDPOINT_KEYS))])

\* the unknown_tool error (server.py lines 284-288)
UnknownToolError(name) ==
  JObj([provider |-> PROVIDER, code |-> C_unknown_tool,
        message |-> JStr(MSG_unknown_tool_prefix \o name \o MSG_unknown_tool_valid
                           \o JoinComma(ENDPOINT_KEYS))])

\* the unexpected_error error (server.py lines 319-323)
UnexpectedError(text) ==
  JObj([provider |-> PROVIDER, code |-> C_unexpected_error,
        message |-> JStr(MSG_unexpected_prefix \o text)])

\* ------------------------------------------------------------- client.py
\* DEFAULT_TIMEOUT (client.py line 48)
DEFAULT_TIMEOUT == 10

\* AviationstackClient(api_key=...) with the module defaults (client.py lines 53-61)
NewClient(api_key, environ) ==
  [api_key |-> api_key, base_url |-> DEFAULT_BASE_URL, timeout |-> DEFAULT_TIMEOUT,
   max_retries |-> environ.max_retries, backoff_seconds |-> environ.backoff_seconds]

\* from_env that tests `api_key is None`, so that an empty key passes
Mut_from_env_none_only(environ) ==
  IF environ.api_key = JNull THEN RaiseAPIError(MissingApiKeyError)
  ELSE Return(NewClient(environ.api_key.s, environ))

\* from_env (client.py lines 63-79): os.getenv gives None or a string
from_env(environ) ==
  IF ~Truthy(environ.api_key) THEN RaiseAPIError(MissingApiKeyError)
  ELSE Return(NewClient(environ.api_key.s, environ))

\* get_client without the `_client is None` test: every call builds a client
\* from the environment
Mut_get_client_always_builds(current, environ) ==
  LET made == from_env(environ)
  IN  [result |-> made,
       client |-> IF made.kind = "return" THEN made.value ELSE current]

\* get_client (server.py lines 39-43): the call's result and the module-level
\* _client afterwards
get_client(current, environ) ==
  IF current = JNull
    THEN LET made == from_env(environ)
         IN  [result |-> made,
              client |-> IF made.kind = "return" THEN made.value ELSE current]
    ELSE [result |-> Return(current), client |-> current]

\* request_params["access_key"] = value on a dict
DictSet(d, key, value) ==
  JObj([k \in DOMAIN d.o \cup {key} |-> IF k = key THEN value ELSE d.o[k]])

\* fetch without the copy: request_params is the caller's mapping itself
Mut_MergeCredential_alias(self, params) ==
  [params |-> DictSet(params, "access_key", JStr(self.api_key)),
   request_params |-> DictSet(params, "access_key", JStr(self.api_key))]

\* fetch that keeps a caller-supplied access_key (setdefault)
Mut_MergeCredential_setdefault(self, params) ==
  [params |-> params,
   request_params |-> IF "access_key" \in DOMAIN params.o THEN JObj(params.o)
                      ELSE DictSet(JObj(params.o), "access_key", JStr(self.api_key))]

\* fetch, lines 92-97: the caller's mapping afterwards and the request_params
\* sent; dict(params) is a copy, so the assignment does not reach the caller's.
MergeCredential(self, params) ==
  [params |-> params,
   request_params |-> DictSet(JObj(params.o), "access_key", JStr(self.api_key))]

\* the GET of one attempt (client.py lines 104-105)
GetRequest(self, resource, request_params) ==
  [method |-> "GET", url |-> self.base_url \o resource,
   params |-> request_params, timeout |-> self.timeout]

\* raise_for_status() lets a 2xx response through (client.py line 106)
IsSuccessStatus(status) == HTTP_SUCCESS_MIN <= status /\ status <= HTTP_SUCCESS_MAX

\* the retry decision of an except block (client.py lines 121-124, 127-129, 140-142)
RetryOrRaise(self, error, attempt) ==
  IF ~_should_retry(self, error, attempt) THEN RaiseAPIError(error) ELSE Retry(error)

\* One pass of the try statement (client.py lines 103-142) on the transport's
\* outcome: fetch returns, raises, or goes on to line 144 to retry.
TryAttempt(self, resource, response, attempt) ==
  IF response.kind = "network"
    THEN RetryOrRaise(self, NetworkError(response.exc), attempt)
  ELSE IF ~IsSuccessStatus(response.status)
    THEN LET built == _build_error_from_http_status(response)
         IN  IF built.kind = "raise" THEN built
             ELSE RetryOrRaise(self, built.value, attempt)
  ELSE IF response.body = NotJson THEN JsonDecodeError
  ELSE LET data == response.body
       IN  IF IsDict(data) /\ Truthy(DictGet(data, "error", JNull))
             THEN LET exc == _build_api_error_from_body(data.o["error"], JInt(response.status))
                  IN  IF exc.exc = "AviationstackAPIError"
                        THEN RetryOrRaise(self, exc.error, attempt)
                        ELSE exc
             ELSE _normalize_success(resource, data)

\* sleep_for with the exponent off by one (2 ** attempt)
Mut_SleepFor_exponent(self, attempt) == self.backoff_seconds * (2 ^ attempt)

\* sleep_for (client.py line 161), attempt already incremented
SleepFor(self, attempt) == self.backoff_seconds * (2 ^ (attempt - 1))

\* handle_call_tool with `except Exception` ahead of `except AviationstackAPIError`:
\* an Error Payload is wrapped like any other exception
Mut_CallToolResult_catch_all(out) ==
  IF out.kind = "return" THEN TextResult(DumpsSuccess(out.value))
  ELSE IF out.exc = "AviationstackAPIError"
    THEN TextResult(JObj([error |-> UnexpectedError(PyStr(out.error.message))]))
  ELSE TextResult(JObj([error |-> UnexpectedError(out.text)]))

\* what handle_call_tool returns for fetch's outcome (server.py lines 303-326)
CallToolResult(out) ==
  IF out.kind = "return" THEN TextResult(DumpsSuccess(out.value))
  ELSE IF out.exc = "AviationstackAPIError"
    THEN TextResult(JObj([error |-> DumpsErrorPayload(out.error)]))
  ELSE TextResult(JObj([error |-> UnexpectedError(out.text)]))

\* ----------------------------------------------------------------- inputs
\* AVIATIONSTACK_API_KEY: unset, empty, or a key
ApiKeyValues == {JNull, JStr(<<>>), JStr(<<"k","1">>)}
\* AVIATIONSTACK_MAX_RETRIES: any integer; the negative case is -1
MaxRetriesValues == (0 - 1)..MaxRetriesBound
\* AVIATIONSTACK_RETRY_BACKOFF_SECONDS, in whole seconds
BackoffValues == {1, 3}

\* tool names: the five of ENDPOINT_MAP and one that is none of them
ToolNameInputs == DOMAIN ENDPOINT_MAP \cup {<<"b","o","g","u","s">>}
\* arguments: None, {}, a mapping without and one with access_key
ArgumentInputs ==
  {JNull, EmptyDict,
   JObj([flight_iata |-> JStr(<<"A","A","1">>)]),
   JObj([access_key |-> JStr(<<"e","v","i","l">>), limit |-> JInt(5)])}

\* provider error objects {code, message}
ErrorObjects ==
  {JObj([code |-> JStr(S_rate_limit), message |-> JStr(<<"s","l","o","w"," ","d","o","w","n">>)]),
   JObj([code |-> JStr(<<"Q","u","o","t","a","_","R","e","a","c","h","e","d">>)]),
   JObj([code |-> JStr(<<"i","n","v","a","l","i","d","_","a","c","c","e","s","s","_","k","e","y">>), message |-> JStr(<<"b","a","d"," ","k","e","y">>)]),
   JObj([message |-> JStr(<<"R","a","t","e"," ","L","i","m","i","t"," ","h","i","t">>)]),
   JObj([code |-> JInt(104), message |-> JNull])}
\* every value of a body's `error` field: null, "", {}, a string, an object
ErrorValues == {JNull, JStr(<<>>), EmptyDict, JStr(<<"b","o","o","m">>)} \cup ErrorObjects

\* items of a `data` array
ItemValues == {JObj([flight |-> JInt(1)]), JObj([flight |-> JInt(2)])}
DataArrays == UNION {{JArr(a) : a \in [1..n -> ItemValues]} : n \in 0..MaxItems}
\* every value of a body's `data` field: an array, null, an object, {}
DataValues == DataArrays \cup {JNull, JObj([flight |-> JInt(1)]), EmptyDict}
FullPagination == JObj([current_page |-> JInt(1), limit |-> JInt(100), total |-> JInt(2)])
\* every value of a body's `pagination` field
PaginationValues == {JNull, FullPagination, JObj([limit |-> JInt(100)]), JStr(<<"x">>)}

\* response bodies: undecodable, JSON that is no object, objects with an
\* `error`, objects with `data` and `pagination`, with `data` alone, with neither
Bodies ==
  {NotJson, JArr(<<JObj([flight |-> JInt(1)])>>), EmptyDict,
   JObj([data |-> JArr(<<JObj([flight |-> JInt(2)])>>)])}
    \cup {JObj([error |-> e]) : e \in ErrorValues}
    \cup {JObj([data |-> d, pagination |-> FullPagination]) : d \in DataValues}
    \cup {JObj([data |-> JArr(<<JObj([flight |-> JInt(1)])>>), pagination |-> g]) :
            g \in PaginationValues}

\* bodies seen with a status-line failure: undecodable, no `error`, every `error`
ErrorBodies == {NotJson, EmptyDict} \cup {JObj([error |-> e]) : e \in ErrorValues}
RateLimitBody == JObj([error |-> JObj([code |-> JStr(S_rate_limit), message |-> JStr(<<"s","l","o","w"," ","d","o","w","n">>)])])

\* statuses that fail raise_for_status(), and the 2xx ones
ErrorStatuses == {404, 429, 503}
EdgeStatuses == {400, 500, 599}
NoHeaders == <<>>
\* Retry-After: 3 and an unparsable Retry-After
RetryAfterHeaders == {[x \in {"Retry-After"} |-> <<"3">>],
                      [x \in {"Retry-After"} |-> <<"s","o","o","n">>]}

HttpResponse(status, headers, body) ==
  [kind |-> "http", status |-> status, headers |-> headers, body |-> body]
\* httpx.RequestError / asyncio.TimeoutError, with str(exc)
NetworkFault == [kind |-> "network", exc |-> <<"t","i","m","e","d"," ","o","u","t">>]

\* what the transport can deliver for one GET
Responses ==
  {NetworkFault}
    \cup {HttpResponse(st, NoHeaders, b) : st \in ErrorStatuses, b \in ErrorBodies}
    \cup {HttpResponse(st, NoHeaders, NotJson) : st \in EdgeStatuses}
    \cup {HttpResponse(st, h, b) : st \in ErrorStatuses \cup {200}, h \in RetryAfterHeaders,
            b \in {RateLimitBody}}
    \cup {HttpResponse(200, NoHeaders, b) : b \in Bodies}
    \cup {HttpResponse(201, NoHeaders, b) : b \in {NotJson, RateLimitBody, EmptyDict}}

\* ------------------------------------------------------------------ state
VARIABLES
  environ,         \* os.environ as read at import and by from_env
  client,          \* server.py module-level _client (None or the client)
  pc,              \* where handle_call_tool / fetch stands
  call,            \* the (name, arguments) handle_call_tool was called with
  arguments,       \* the caller's arguments object, as it is now
  params,          \* the mapping object fetch was called with, as it is now
  resource,        \* fetch's resource
  request_params,  \* fetch's request_params
  attempt,         \* fetch's attempt
  last_error,      \* fetch's last_error
  response,        \* what the transport delivered for the latest GET
  requests,        \* the GETs of the current call, in order
  sleeps,          \* the asyncio.sleep delays of the current call, in order
  fetch_calls,     \* the fetch(resource, params) calls the current
                   \* handle_call_tool made, in order
  streak,          \* what every attempt of the current call met so far: nothing
                   \* yet, a network fault, an embedded error, a status-line
                   \* failure, a 2xx reply without error, or a mix of these
  outcome,         \* how fetch ended: returned value or raised exception
  result           \* what handle_call_tool returned

vars == <<environ, client, pc, call, arguments, params, resource, request_params,
          attempt, last_error, response, requests, sleeps, fetch_calls, streak,
          outcome, result>>

Init ==
  /\ environ \in [api_key : ApiKeyValues, max_retries : MaxRetriesValues,
                  backoff_seconds : BackoffValues]
  /\ client = JNull
  /\ pc = "idle"
  /\ call = JNull
  /\ arguments = JNull
  /\ params = JNull
  /\ resource = JNull
  /\ request_params = JNull
  /\ attempt = 0
  /\ last_error = JNull
  /\ response = JNull
  /\ requests = <<>>
  /\ sleeps = <<>>
  /\ fetch_calls = <<>>
  /\ streak = "none"
  /\ outcome = JNull
  /\ result = JNull

\* client.fetch called with the tool's name in place of its resource
Mut_FetchArgs_tool_name(name, args) ==
  [resource |-> name,
   params |-> IF Truthy(args) THEN args ELSE EmptyDict]

\* what handle_call_tool passes to client.fetch (server.py lines 281-282, 294,
\* 304): the resource of the tool and the arguments, {} when there are none
FetchArgs(name, args) ==
  [resource |-> ENDPOINT_MAP[name],
   params |-> IF Truthy(args) THEN args ELSE EmptyDict]

\* handle_call_tool up to its first await (server.py lines 279-304, client.py
\* lines 92-100): rejects an unknown tool, obtains the client, enters fetch.
CallTool(name, args) ==
  /\ pc \in {"idle", "returned"}
  /\ call' = [name |-> name, arguments |-> args]
  /\ response' = JNull
  /\ requests' = <<>>
  /\ sleeps' = <<>>
  /\ streak' = "none"
  /\ outcome' = JNull
  /\ attempt' = 0
  /\ last_error' = JNull
  /\ UNCHANGED environ
  /\ IF name \notin DOMAIN ENDPOINT_MAP
       THEN /\ result' = TextResult(JObj([error |-> UnknownToolError(name)]))
            /\ pc' = "returned"
            /\ arguments' = args
            /\ params' = JNull
            /\ resource' = JNull
            /\ request_params' = JNull
            /\ fetch_calls' = <<>>
            /\ UNCHANGED client
       ELSE LET got == get_client(client, environ)
            IN  /\ client' = got.client
                /\ IF got.result.kind = "raise"
                     THEN /\ result' = TextResult(
                                 JObj([error |-> DumpsErrorPayload(got.result.error)]))
                          /\ pc' = "returned"
                          /\ arguments' = args
                          /\ params' = JNull
                          /\ resource' = JNull
                          /\ request_params' = JNull
                          /\ fetch_calls' = <<>>
                     ELSE LET passed == FetchArgs(name, args)
                              merged == MergeCredential(got.result.value, passed.params)
                          IN  /\ result' = JNull
                              /\ pc' = "attempting"
                              /\ arguments' = IF Truthy(args) THEN merged.params ELSE args
                              /\ params' = merged.params
                              /\ resource' = passed.resource
                              /\ request_params' = merged.request_params
                              /\ fetch_calls' = <<passed>>

\* fetch ends and its frame with it (the actions clear last_error);
\* handle_call_tool returns its result (server.py lines 305-326)
Finish(out) ==
  /\ outcome' = out
  /\ result' = CallToolResult(out)
  /\ pc' = "returned"

\* which branch of the try statement a transport outcome takes
ResponseKind(resp) ==
  IF resp.kind = "network" THEN "network"
  ELSE IF ~IsSuccessStatus(resp.status) THEN "status"
  ELSE IF IsDict(resp.body) /\ Truthy(DictGet(resp.body, "error", JNull)) THEN "embedded"
  ELSE "clean"

\* an attempt that, when it fails after a retry, raises the payload kept from
\* the earlier attempt instead of its own
Mut_Attempt_raises_earlier(resp) ==
  /\ pc = "attempting"
  /\ streak' = IF streak \in {"none", ResponseKind(resp)} THEN ResponseKind(resp)
                ELSE "mixed"
  /\ requests' = Append(requests, GetRequest(client, resource, request_params))
  /\ response' = resp
  /\ LET out == TryAttempt(client, resource, resp, attempt)
     IN  IF out.kind = "retry"
           THEN /\ last_error' = out.last_error
                /\ pc' = "backoff"
                /\ UNCHANGED <<outcome, result>>
           ELSE /\ Finish(IF out.kind = "raise" /\ last_error # JNull
                            THEN RaiseAPIError(last_error) ELSE out)
                /\ last_error' = JNull
  /\ UNCHANGED <<environ, client, call, arguments, params, resource,
                 request_params, attempt, sleeps, fetch_calls>>

\* One GET and the try statement around it (client.py lines 103-142).
Attempt(resp) ==
  /\ pc = "attempting"
  /\ streak' = IF streak \in {"none", ResponseKind(resp)} THEN ResponseKind(resp)
                ELSE "mixed"
  /\ requests' = Append(requests, GetRequest(client, resource, request_params))
  /\ response' = resp
  /\ LET out == TryAttempt(client, resource, resp, attempt)
     IN  IF out.kind = "retry"
           THEN /\ last_error' = out.last_error
                /\ pc' = "backoff"
                /\ UNCHANGED <<outcome, result>>
           ELSE /\ Finish(out)
                /\ last_error' = JNull
  /\ UNCHANGED <<environ, client, call, arguments, params, resource,
                 request_params, attempt, sleeps, fetch_calls>>

\* the code after the except blocks without `attempt += 1`: the attempt is
\* never counted
Mut_Backoff_no_count ==
  /\ pc = "backoff"
  /\ sleeps' = Append(sleeps, SleepFor(client, attempt + 1))
  /\ pc' = "sleeping"
  /\ UNCHANGED <<environ, client, call, arguments, params, resource,
                 request_params, attempt, last_error, response, requests,
                 fetch_calls, streak, outcome, result>>

\* After the except blocks (client.py lines 144-162): count the attempt, give
\* up if the budget is spent, otherwise start the backoff sleep.
Backoff ==
  /\ pc = "backoff"
  /\ attempt' = attempt + 1
  /\ IF attempt' > client.max_retries
       THEN /\ Finish(RaiseAPIError(IF last_error = JNull THEN MaxRetriesExceededError
                                    ELSE last_error))
            /\ last_error' = JNull
            /\ UNCHANGED sleeps
       ELSE /\ sleeps' = Append(sleeps, SleepFor(client, attempt'))
            /\ pc' = "sleeping"
            /\ UNCHANGED <<outcome, result, last_error>>
  /\ UNCHANGED <<environ, client, call, arguments, params, resource,
                 request_params, response, requests, fetch_calls, streak>>

\* the loop starting over with the attempt counted a second time
Mut_Wake_increments ==
  /\ pc = "sleeping"
  /\ pc' = "attempting"
  /\ attempt' = attempt + 1
  /\ UNCHANGED <<environ, client, call, arguments, params, resource, request_params,
                 last_error, response, requests, sleeps, fetch_calls, streak,
                 outcome, result>>

\* asyncio.sleep returns (client.py line 162); the loop starts over.
Wake ==
  /\ pc = "sleeping"
  /\ pc' = "attempting"
  /\ UNCHANGED <<environ, client, call, arguments, params, resource, request_params,
                 attempt, last_error, response, requests, sleeps, fetch_calls, streak,
                 outcome, result>>

Next ==
  \/ \E name \in ToolNameInputs, args \in ArgumentInputs : CallTool(name, args)
  \/ \E resp \in Responses : Attempt(resp)
  \/ Backoff
  \/ Wake

Spec == Init /\ [][Next]_vars

\* ================================================================ claims
\* The transport outcome in `response` was classified into an Error Payload.
YieldsError(resp) ==
  \/ ResponseKind(resp) = "network"
  \/ ResponseKind(resp) = "status" /\ _build_error_from_http_status(resp).kind = "return"
  \/ ResponseKind(resp) = "embedded" /\ IsDict(resp.body.o["error"])

\* That Error Payload.
ErrorOf(resp) ==
  IF ResponseKind(resp) = "network" THEN NetworkError(resp.exc)
  ELSE IF ResponseKind(resp) = "status" THEN _build_error_from_http_status(resp).value
  ELSE _build_api_error_from_body(resp.body.o["error"], JInt(resp.status)).error

\* fetch raised an AviationstackAPIError
RaisedAPIError ==
  /\ pc = "returned"
  /\ outcome # JNull
  /\ outcome.kind = "raise"
  /\ outcome.exc = "AviationstackAPIError"

\* fetch ran and ended
FetchEnded == pc = "returned" /\ outcome # JNull

\* the Error Payload of the latest attempt, where the state holds one
HoldsPayload == pc = "backoff" \/ RaisedAPIError
HeldPayload == IF pc = "backoff" THEN last_error ELSE outcome.error

Max(a, b) == IF a > b THEN a ELSE b

\* C1: after an attempt that yields an Error Payload, fetch goes on to retry
\* exactly when attempt < max_retries and (rate_limited or retryable); in every
\* other case it ends on that very attempt by raising exactly that payload.
C1_RetryIffBudgetAndRetryable ==
  /\ pc = "backoff" =>
       /\ YieldsError(response)
       /\ last_error = ErrorOf(response)
       /\ attempt < client.max_retries
       /\ last_error.rate_limited \/ last_error.retryable
       /\ outcome = JNull
  /\ (pc = "sleeping" \/ (pc = "attempting" /\ attempt > 0)) =>
       /\ outcome = JNull
       /\ Len(requests) = attempt
  /\ (FetchEnded /\ YieldsError(response)) =>
       /\ ~(attempt < client.max_retries
              /\ (ErrorOf(response).rate_limited \/ ErrorOf(response).retryable))
       /\ outcome = RaiseAPIError(ErrorOf(response))
       /\ Len(requests) = attempt + 1

\* a retryable error ends the call because the budget is spent after two retries
C1_Witness ==
  /\ RaisedAPIError
  /\ attempt = 2
  /\ client.max_retries = 2
  /\ outcome.error.retryable
  /\ ~outcome.error.rate_limited

\* C2 as stated: when every attempt met a network fault, or every attempt met
\* an embedded rate-limit error, fetch made exactly max_retries + 1 requests
\* and raised the payload of the last attempt.
C2_Original ==
  (FetchEnded /\ streak \in {"network", "embedded"} /\ YieldsError(response)
     /\ ErrorOf(response).retryable) =>
       /\ Len(requests) = client.max_retries + 1
       /\ outcome = RaiseAPIError(ErrorOf(response))
       /\ outcome.error # MaxRetriesExceededError

\* C2 amended: under the same condition fetch made exactly
\* max(max_retries, 0) + 1 requests (one request when max_retries is
\* negative) and raised the payload of the last attempt, never the
\* synthesized max_retries_exceeded payload.
C2_ExhaustsBudget ==
  (FetchEnded /\ streak \in {"network", "embedded"} /\ YieldsError(response)
     /\ ErrorOf(response).retryable) =>
       /\ Len(requests) = Max(client.max_retries, 0) + 1
       /\ Len(sleeps) = Max(client.max_retries, 0)
       /\ outcome = RaiseAPIError(ErrorOf(response))
       /\ outcome.error # MaxRetriesExceededError
       /\ (streak = "network" => outcome.error.code = C_network_error)
       /\ (streak = "embedded" => outcome.error.rate_limited)

\* three network faults in a row with max_retries = 2
C2_Witness ==
  /\ RaisedAPIError
  /\ streak = "network"
  /\ client.max_retries = 2
  /\ Len(requests) = 3
  /\ outcome.error.code = C_network_error

\* C3: every terminal outcome of fetch is a returned success payload or a
\* raised AviationstackAPIError carrying an Error Payload; no other exception
\* leaves fetch.
C3_Original ==
  FetchEnded =>
    \/ outcome.kind = "return"
    \/ outcome.kind = "raise" /\ outcome.exc = "AviationstackAPIError"

\* C4: the k-th sleep of a call (k = 1, 2, ...) lasts backoff_seconds * 2^(k-1)
\* whatever the errors were; no sleep precedes the first attempt or follows the
\* last one, so a finished call slept once less than it sent requests.
C4_BackoffDelays ==
  /\ \A k \in 1..Len(sleeps) : sleeps[k] = client.backoff_seconds * (2 ^ (k - 1))
  /\ pc \in {"attempting", "sleeping"} => Len(sleeps) = Len(requests)
  /\ pc = "backoff" => Len(sleeps) = Len(requests) - 1
  /\ FetchEnded => Len(sleeps) = Len(requests) - 1
  /\ (pc = "returned" /\ outcome = JNull) => (sleeps = <<>> /\ requests = <<>>)

\* the second sleep follows a 429 that carried Retry-After: 3
C4_Witness ==
  /\ pc = "sleeping"
  /\ Len(sleeps) = 2
  /\ last_error.retry_after_seconds = JFloat(3)
  /\ client.backoff_seconds = 1

\* C5: the guard `attempt > max_retries` after the increment is never true,
\* last_error is set whenever it is evaluated, and fetch never raises the
\* synthesized max_retries_exceeded payload.
C5_GuardNeverFires ==
  /\ pc = "backoff" => (attempt + 1 <= client.max_retries /\ last_error # JNull)
  /\ RaisedAPIError => outcome.error # MaxRetriesExceededError
  /\ FetchEnded => Len(requests) = attempt + 1

\* the guard is evaluated with the incremented attempt equal to max_retries
C5_Witness ==
  /\ pc = "backoff"
  /\ attempt + 1 = client.max_retries
  /\ attempt = 1

\* the mapping fetch received, as the caller built it
GivenParams == IF Truthy(call.arguments) THEN call.arguments ELSE EmptyDict

\* C6: fetch leaves the caller's params mapping as it was: same keys, same
\* values, no access_key added, a supplied access_key unchanged.
C6_ParamsNotMutated ==
  pc # "idle" =>
    /\ arguments = call.arguments
    /\ params # JNull => params = GivenParams

\* a call that retried, made with a mapping that has no access_key
C6_Witness ==
  /\ FetchEnded
  /\ Len(requests) = 2
  /\ Truthy(call.arguments)
  /\ "access_key" \notin DOMAIN call.arguments.o
  /\ "access_key" \in DOMAIN requests[2].params.o

\* C7: each attempt is one GET to base_url + resource whose query parameters
\* are the caller's params with access_key set to the client's API key, a
\* caller-supplied access_key overridden; every attempt of a call sends the same.
C7_RequestShape ==
  /\ \A i \in 1..Len(requests) :
       /\ requests[i].method = "GET"
       /\ requests[i].url = client.base_url \o ENDPOINT_MAP[call.name]
       /\ DOMAIN requests[i].params.o = DOMAIN GivenParams.o \cup {"access_key"}
       /\ requests[i].params.o["access_key"] = JStr(client.api_key)
       /\ \A k \in DOMAIN GivenParams.o \ {"access_key"} :
            requests[i].params.o[k] = GivenParams.o[k]
       /\ requests[i] = requests[1]
  /\ pc \in {"attempting", "sleeping"} => Len(requests) = attempt
  /\ pc = "backoff" => Len(requests) = attempt + 1
  /\ FetchEnded => Len(requests) = attempt + 1

\* two attempts of a call whose arguments carry their own access_key
C7_Witness ==
  /\ Len(requests) = 2
  /\ Truthy(call.arguments)
  /\ "access_key" \in DOMAIN call.arguments.o
  /\ call.arguments.o["access_key"] # JStr(client.api_key)

\* C8: with no API key (unset or empty) constructing the client fails with the
\* missing_api_key payload, retryable and rate_limited false; handle_call_tool
\* returns it as {error}, no client exists, fetch never runs, nothing is sent.
C8_MissingApiKey ==
  ~Truthy(environ.api_key) =>
    /\ client = JNull
    /\ requests = <<>>
    /\ outcome = JNull
    /\ pc \in {"idle", "returned"}
    /\ (pc = "returned" /\ call.name \in DOMAIN ENDPOINT_MAP) =>
         /\ Len(result) = 1
         /\ DOMAIN result[1].text.o = {"error"}
         /\ result[1].text.o["error"].o["code"] = JStr(<<"m","i","s","s","i","n","g","_","a","p","i","_","k","e","y">>)
         /\ result[1].text.o["error"].o["retryable"] = JBool(FALSE)
         /\ result[1].text.o["error"].o["rate_limited"] = JBool(FALSE)
         /\ result[1].text.o["error"] = DumpsErrorPayload(MissingApiKeyError)

\* a known tool called with the API key set to the empty string
C8_Witness ==
  /\ pc = "returned"
  /\ environ.api_key = JStr(<<>>)
  /\ call.name = TOOL_GET_FLIGHTS

\* the body's `error` when it is an object, for a status-line failure
StructuredError(resp) ==
  /\ IsDict(resp.body)
  /\ "error" \in DOMAIN resp.body.o
  /\ IsDict(resp.body.o["error"])

C10_RetryAfterOnly429 ==
  /\ HoldsPayload =>
       /\ HeldPayload.retry_after_seconds =
            IF /\ response.kind = "http"
               /\ response.status = 429
               /\ "Retry-After" \in DOMAIN response.headers
               /\ response.headers["Retry-After"] = <<"3">>
              THEN JFloat(3) ELSE JNull
       /\ HeldPayload.retry_after_seconds # JNull =>
            (HeldPayload.rate_limited /\ HeldPayload.retryable)
  /\ (pc = "returned" /\ outcome = JNull /\ call.name \in DOMAIN ENDPOINT_MAP) =>
       result[1].text.o["error"].o["retry_after_seconds"] = JNull

\* a 429 with Retry-After: 3 ended the call
C10_Witness ==
  /\ RaisedAPIError
  /\ response.kind = "http"
  /\ response.status = 429
  /\ "Retry-After" \in DOMAIN response.headers
  /\ response.headers["Retry-After"] = <<"3">>
  /\ outcome.error.retry_after_seconds = JFloat(3)

\* the latest attempt of the call is over: fetch is past its try statement
AttemptDone == pc = "backoff" \/ FetchEnded

\* C11 as stated: a 2xx response whose JSON object has a non-empty `error` is
\* classified as an Error Payload carrying that 2xx status_code, and when the
\* payload is not rate-limit-like fetch ends on that very attempt with
\* retryable false and no sleep after it; a 2xx object whose `error` is absent
\* or empty goes to the normalizer as a clean success.
C11_Original ==
  /\ (AttemptDone /\ ResponseKind(response) = "embedded") =>
       /\ HoldsPayload
       /\ HeldPayload.status_code = JInt(response.status)
       /\ ~HeldPayload.rate_limited =>
            /\ RaisedAPIError
            /\ ~HeldPayload.retryable
            /\ Len(requests) = attempt + 1
            /\ Len(sleeps) = attempt
  /\ (AttemptDone /\ ResponseKind(response) = "clean" /\ IsDict(response.body)) =>
       /\ FetchEnded
       /\ outcome = _normalize_success(resource, response.body)

\* two strings that differ at most in the case of their letters
EqualsIgnoringCase(a, b) ==
  /\ Len(a) = Len(b)
  /\ \A i \in 1..Len(a) : LowerChar(a[i]) = LowerChar(b[i])

\* sub occurs in s when the case of letters is ignored
ContainsIgnoringCase(s, sub) ==
  \E i \in 0..(Len(s) - Len(sub)) :
    \A j \in 1..Len(sub) : LowerChar(s[i + j]) = LowerChar(sub[j])

\* the latest response is a 2xx object whose `error` is a non-empty object
EmbeddedObjectError ==
  /\ AttemptDone
  /\ ResponseKind(response) = "embedded"
  /\ IsDict(response.body.o["error"])

\* C12: for an embedded body error {code, message} the payload has
\* rate_limited true exactly when the code is "rate_limit" or "quota_reached"
\* in any letter case or the message contains "rate limit" in any letter case;
\* retryable equals rate_limited; a missing code gives a payload without a
\* code and is rate-limit-like only through the message; a missing message
\* gives the non-empty default message.
C12_BodyClassifier ==
  EmbeddedObjectError =>
    LET e == response.body.o["error"].o
        hasCode == "code" \in DOMAIN e
        hasMessage == "message" \in DOMAIN e
        codeHit == /\ hasCode
                   /\ e["code"].t = "str"
                   /\ \/ EqualsIgnoringCase(e["code"].s, <<"r","a","t","e","_","l","i","m","i","t">>)
                      \/ EqualsIgnoringCase(e["code"].s, <<"q","u","o","t","a","_","r","e","a","c","h","e","d">>)
        messageHit == /\ hasMessage
                      /\ e["message"].t = "str"
                      /\ ContainsIgnoringCase(e["message"].s, <<"r","a","t","e"," ","l","i","m","i","t">>)
    IN  /\ HoldsPayload
        /\ HeldPayload.rate_limited <=> (codeHit \/ messageHit)
        /\ HeldPayload.retryable = HeldPayload.rate_limited
        /\ ~hasCode => /\ HeldPayload.code = JNull
                       /\ HeldPayload.rate_limited <=> messageHit
        /\ ~hasMessage =>
             /\ HeldPayload.message = JStr(<<"A","v","i","a","t","i","o","n","s","t","a","c","k"," ","r","e","p","o","r","t","e","d"," ","a","n"," ","e","r","r","o","r">>)
             /\ HeldPayload.message.s # <<>>

\* {"code": "Quota_Reached"} without a message, classified as rate limited
C12_Witness ==
  /\ EmbeddedObjectError
  /\ HoldsPayload
  /\ "message" \notin DOMAIN response.body.o["error"].o
  /\ response.body.o["error"].o["code"] = JStr(<<"Q","u","o","t","a","_","R","e","a","c","h","e","d">>)
  /\ HeldPayload.rate_limited
  /\ HeldPayload.retryable

\* the latest response is a 200 whose JSON object carries no error
CleanObject200 ==
  /\ FetchEnded
  /\ response.kind = "http"
  /\ response.status = 200
  /\ ResponseKind(response) = "clean"
  /\ IsDict(response.body)

\* the body's `pagination` is an object, null or absent
PaginationWellFormed(body) ==
  \/ "pagination" \notin DOMAIN body.o
  \/ body.o["pagination"] = JNull
  \/ IsDict(body.o["pagination"])

\* a field of the body's pagination object, null when there is none
PaginationField(body, key) ==
  IF /\ "pagination" \in DOMAIN body.o
     /\ IsDict(body.o["pagination"])
     /\ key \in DOMAIN body.o["pagination"].o
    THEN body.o["pagination"].o[key]
    ELSE JNull

\* C13: a clean 200 response whose `data` is an array of length N (N >= 0),
\* with a pagination object or none, makes fetch return a payload whose items
\* are that array in the same order, whose meta.resource is the requested
\* resource, meta.provider the provider tag, meta.page/per_page/total the
\* pagination's current_page/limit/total or null when absent, and whose raw is
\* the whole response body.
C13_CleanArray ==
  (/\ CleanObject200
   /\ "data" \in DOMAIN response.body.o
   /\ IsList(response.body.o["data"])
   /\ PaginationWellFormed(response.body)) =>
    LET data == response.body.o["data"].a
    IN  /\ outcome.kind = "return"
        /\ DOMAIN outcome.value = {"meta", "items", "raw"}
        /\ Len(outcome.value.items) = Len(data)
        /\ \A i \in 1..Len(data) : outcome.value.items[i] = data[i]
        /\ DOMAIN outcome.value.meta = {"provider", "resource", "page", "per_page", "total"}
        /\ outcome.value.meta.resource = JStr(fetch_calls[1].resource)
        /\ outcome.value.meta.provider = JStr(<<"a","v","i","a","t","i","o","n","s","t","a","c","k">>)
        /\ outcome.value.meta.page = PaginationField(response.body, "current_page")
        /\ outcome.value.meta.per_page = PaginationField(response.body, "limit")
        /\ outcome.value.meta.total = PaginationField(response.body, "total")
        /\ outcome.value.raw = response.body

\* two different items of the airports resource returned in the order sent
C13_Witness ==
  /\ CleanObject200
  /\ outcome.kind = "return"
  /\ Len(outcome.value.items) = 2
  /\ outcome.value.items[1] # outcome.value.items[2]
  /\ outcome.value.items = response.body.o["data"].a
  /\ outcome.value.meta.per_page = JInt(100)
  /\ fetch_calls[1].resource = <<"a","i","r","p","o","r","t","s">>

\* C14 as stated: a 200 response whose `data` is a single JSON object, the
\* empty object included, yields items of length 1 holding exactly that
\* object; a response without a `data` field yields no items.
C14_Original ==
  (CleanObject200 /\ PaginationWellFormed(response.body)) =>
    /\ ("data" \in DOMAIN response.body.o /\ IsDict(response.body.o["data"])) =>
         /\ outcome.kind = "return"
         /\ outcome.value.items = <<response.body.o["data"]>>
    /\ "data" \notin DOMAIN response.body.o =>
         /\ outcome.kind = "return"
         /\ outcome.value.items = <<>>

\* fetch handed the decoded body of its latest response to the normalizer
NormalizerApplied ==
  /\ FetchEnded
  /\ ResponseKind(response) = "clean"
  /\ response.body # NotJson

\* C15 as stated: the normalizer never raises; for every parsed JSON body
\* (no `data`, `data` that is no array, no `pagination`, `pagination` that is
\* no object, a body that is no object) it returns a {meta, items, raw} payload.
C15_Original ==
  NormalizerApplied =>
    /\ outcome.kind = "return"
    /\ DOMAIN outcome.value = {"meta", "items", "raw"}
    /\ outcome.value.raw = response.body

\* C16: for every tool name that is no key of ENDPOINT_MAP handle_call_tool
\* returns exactly one text item whose JSON is {error: {code: "unknown_tool",
\* ...}}, and does so before obtaining a client: the client slot is left as it
\* was, fetch is not called and no request is sent.
C16_UnknownTool ==
  [][(pc \in {"idle", "returned"} /\ call'.name \notin DOMAIN ENDPOINT_MAP) =>
       /\ pc' = "returned"
       /\ Len(result') = 1
       /\ result'[1].type = "text"
       /\ DOMAIN result'[1].text.o = {"error"}
       /\ result'[1].text.o["error"].o["code"] = JStr(<<"u","n","k","n","o","w","n","_","t","o","o","l">>)
       /\ client' = client
       /\ fetch_calls' = <<>>
       /\ requests' = <<>>
       /\ sleeps' = <<>>
       /\ outcome' = JNull]_vars

\* an unknown tool called with an API key set and no client built yet: the
\* client slot is still empty afterwards
C16_Witness ==
  /\ pc = "returned"
  /\ call.name \notin DOMAIN ENDPOINT_MAP
  /\ client = JNull
  /\ Truthy(environ.api_key)
  /\ result[1].text.o["error"].o["code"] = JStr(<<"u","n","k","n","o","w","n","_","t","o","o","l">>)
  /\ fetch_calls = <<>>

\* the one fetch call C17 expects of the current handle_call_tool
ExpectedFetchCall ==
  [resource |-> ENDPOINT_MAP[call.name],
   params |-> IF call.arguments \in {JNull, EmptyDict} THEN EmptyDict
              ELSE call.arguments]

\* a successful call returned one text item whose JSON is fetch's payload
SuccessForwarded ==
  (FetchEnded /\ outcome.kind = "return") =>
    /\ Len(result) = 1
    /\ result[1].type = "text"
    /\ DOMAIN result[1].text.o = {"meta", "items", "raw"}
    /\ result[1].text.o["meta"].o = outcome.value.meta
    /\ result[1].text.o["items"].a = outcome.value.items
    /\ result[1].text.o["raw"] = outcome.value.raw

\* C17 as stated: for every tool name in ENDPOINT_MAP and every arguments
\* mapping handle_call_tool calls fetch exactly once, with the tool's resource
\* and the caller's arguments unchanged ({} when there are none), and on
\* success returns one text item whose JSON is the payload fetch returned.
C17_Original ==
  (pc # "idle" /\ call.name \in DOMAIN ENDPOINT_MAP) =>
    /\ fetch_calls = <<ExpectedFetchCall>>
    /\ SuccessForwarded

\* C17 amended: the same whenever an API key is configured; without one the
\* client cannot be built and fetch is not called at all.
C17_FetchOnce ==
  (pc # "idle" /\ call.name \in DOMAIN ENDPOINT_MAP) =>
    /\ Truthy(environ.api_key) => fetch_calls = <<ExpectedFetchCall>>
    /\ ~Truthy(environ.api_key) => fetch_calls = <<>>
    /\ SuccessForwarded

\* a call without arguments that succeeded on its second request: one fetch
\* call, with an empty mapping
C17_Witness ==
  /\ FetchEnded
  /\ outcome.kind = "return"
  /\ call.name = TOOL_GET_AIRLINES
  /\ call.arguments = JNull
  /\ Len(fetch_calls) = 1
  /\ fetch_calls[1].params = EmptyDict
  /\ Len(requests) = 2
  /\ Len(result[1].text.o["items"].a) = 2

\* the text item's error object is the raised Error Payload, field by field
PayloadForwarded(doc, e) ==
  /\ DOMAIN doc.o = {"provider", "code", "message", "status_code", "retryable",
                     "rate_limited", "retry_after_seconds"}
  /\ doc.o["provider"] = e.provider
  /\ doc.o["code"] = e.code
  /\ doc.o["message"] = e.message
  /\ doc.o["status_code"] = e.status_code
  /\ doc.o["retryable"] = JBool(e.retryable)
  /\ doc.o["rate_limited"] = JBool(e.rate_limited)
  /\ doc.o["retry_after_seconds"] = e.retry_after_seconds

\* C18: handle_call_tool never lets an exception of fetch through: an
\* AviationstackAPIError comes back as {error: its Error Payload} unchanged,
\* any other exception as {error} with code unexpected_error; every result is
\* a one-element list holding either an object with meta, items and raw or an
\* object with error, never both.
C18_NoEscape ==
  pc = "returned" =>
    /\ Len(result) = 1
    /\ result[1].type = "text"
    /\ \/ DOMAIN result[1].text.o = {"meta", "items", "raw"}
       \/ DOMAIN result[1].text.o = {"error"}
    /\ (FetchEnded /\ outcome.kind = "return") =>
         DOMAIN result[1].text.o = {"meta", "items", "raw"}
    /\ (FetchEnded /\ outcome.kind = "raise") =>
         /\ DOMAIN result[1].text.o = {"error"}
         /\ IF outcome.exc = "AviationstackAPIError"
              THEN PayloadForwarded(result[1].text.o["error"], outcome.error)
              ELSE result[1].text.o["error"].o["code"] = JStr(<<"u","n","e","x","p","e","c","t","e","d","_","e","r","r","o","r">>)

\* fetch ended with an AttributeError and the caller got unexpected_error
C18_Witness ==
  /\ FetchEnded
  /\ outcome.kind = "raise"
  /\ outcome.exc = "AttributeError"
  /\ Len(result) = 1
  /\ result[1].text.o["error"].o["code"] = JStr(<<"u","n","e","x","p","e","c","t","e","d","_","e","r","r","o","r">>)

\* C19 as stated: every error object handle_call_tool emits, unknown_tool and
\* unexpected_error included, has the Error Payload shape of the core's
\* errors: the provider tag, a code, a message and the boolean fields
\* retryable and rate_limited, with status_code and retry_after_seconds
\* optional.
C19_Original ==
  (pc = "returned" /\ DOMAIN result[1].text.o = {"error"}) =>
    LET e == result[1].text.o["error"].o
    IN  /\ {"provider", "code", "message", "retryable", "rate_limited"} \subseteq DOMAIN e
        /\ DOMAIN e \subseteq {"provider", "code", "message", "retryable", "rate_limited",
                                "status_code", "retry_after_seconds"}
        /\ e["provider"] = JStr(<<"a","v","i","a","t","i","o","n","s","t","a","c","k">>)
        /\ e["retryable"].t = "bool"
        /\ e["rate_limited"].t = "bool"

\* The state of one fetch call in the terms of C20: Attempting while a GET and
\* its try statement run, Retrying from the decision to retry until the
\* backoff sleep is over, Succeeded or Failed once fetch returned or raised.
Phase ==
  CASE pc = "attempting" -> "Attempting"
    [] pc \in {"backoff", "sleeping"} -> "Retrying"
    [] pc = "returned" /\ outcome # JNull /\ outcome.kind = "return" -> "Succeeded"
    [] pc = "returned" /\ outcome # JNull /\ outcome.kind = "raise" -> "Failed"
    [] OTHER -> "NoFetch"

\* the latest attempt met an error that is retried: retryable or rate limited,
\* with budget left
RetriedError(resp, count) ==
  /\ YieldsError(resp)
  /\ ErrorOf(resp).retryable \/ ErrorOf(resp).rate_limited
  /\ count < client.max_retries

\* The transitions of a fetch call: it starts in Attempting with the counter
\* at 0; its steps are Attempting -> Succeeded (one request, a response with
\* no error), Attempting -> Retrying (one request, a retried error),
\* Attempting -> Failed (one request, anything else), steps inside Retrying
\* and Retrying -> Attempting (no request); Succeeded and Failed are final: the
\* next step, if any, is another call of handle_call_tool with fresh logs.
FetchTransitions ==
  /\ (pc \in {"idle", "returned"} /\ pc' # "returned") =>
       /\ Phase' = "Attempting"
       /\ attempt' = 0
  /\ Phase \in {"Succeeded", "Failed"} =>
       /\ requests' = <<>>
       /\ sleeps' = <<>>
       /\ attempt' = 0
       /\ outcome' = JNull
       /\ call' \in [name : ToolNameInputs, arguments : ArgumentInputs]
  /\ Phase = "Attempting" =>
       /\ Phase' \in {"Succeeded", "Retrying", "Failed"}
       /\ Len(requests') = Len(requests) + 1
       /\ sleeps' = sleeps
       /\ Phase' = "Succeeded" => ResponseKind(response') = "clean"
       /\ Phase' = "Retrying" <=> RetriedError(response', attempt)
  /\ Phase = "Retrying" =>
       /\ Phase' \in {"Retrying", "Attempting"}
       /\ requests' = requests
       /\ Phase' = "Retrying" => (pc = "backoff" /\ Len(sleeps') = Len(sleeps) + 1)
       /\ Phase' = "Attempting" => (pc = "sleeping" /\ sleeps' = sleeps)

LiveResponses ==
  {NetworkFault}
    \cup {HttpResponse(st, NoHeaders, b) : st \in ErrorStatuses,
            b \in {NotJson, JObj([error |-> JStr(<<"b","o","o","m">>)])}}
    \cup {HttpResponse(429, h, RateLimitBody) : h \in RetryAfterHeaders}
    \cup {HttpResponse(200, NoHeaders, b) :
            b \in {NotJson, RateLimitBody, EmptyDict,
                   JObj([error |-> JStr(<<"b","o","o","m">>)]),
                   JObj([error |-> JObj([code |-> JInt(104), message |-> JNull])]),
                   JArr(<<JObj([flight |-> JInt(1)])>>),
                   JObj([data |-> JArr(<<JObj([flight |-> JInt(2)])>>)])}}

LiveNext ==
  \/ \E name \in ToolNameInputs, args \in ArgumentInputs : CallTool(name, args)
  \/ \E resp \in LiveResponses : Attempt(resp)
  \/ Backoff
  \/ Wake

\* Every awaited GET completes (with a response or a network fault, the httpx
\* timeout bounds it) and every asyncio.sleep returns, so a fetch call that can
\* take a step of its loop eventually takes one.
LiveSpec ==
  /\ Init
  /\ [][LiveNext]_vars
  /\ WF_vars(\E resp \in LiveResponses : Attempt(resp))
  /\ WF_vars(Backoff)
  /\ WF_vars(Wake)

\* the largest number of GETs one fetch call may send
RequestBudget == Max(client.max_retries, 0) + 1

\* C21: every fetch call terminates: when each GET and each sleep completes
\* the call reaches Succeeded or Failed after at least 1 and at most
\* max(max_retries, 0) + 1 requests, whatever the attempts' outcomes; with
\* max_retries <= 0 it sends exactly one request and never sleeps.
C21_Terminates ==
  /\ [](pc \in {"attempting", "backoff", "sleeping"} =>
          /\ Len(requests) <= RequestBudget
          /\ pc = "attempting" => Len(requests) < RequestBudget
          /\ client.max_retries <= 0 => (sleeps = <<>> /\ pc = "attempting"))
  /\ [](FetchEnded =>
          /\ 1 <= Len(requests)
          /\ Len(requests) <= RequestBudget
          /\ client.max_retries <= 0 => (Len(requests) = 1 /\ sleeps = <<>>))
  /\ (pc \in {"attempting", "backoff", "sleeping"}) ~> FetchEnded

\* a call with max_retries = 2 that ended after its third request, having met
\* different kinds of outcome on the way
C21_Witness ==
  /\ FetchEnded
  /\ client.max_retries = 2
  /\ Len(requests) = 3
  /\ Len(sleeps) = 2
  /\ streak = "mixed"

\* C22: the outcome of fetch is determined by its final attempt only. When
\* that attempt decodes cleanly, even after retried failures, fetch returns
\* the normalization of that attempt's body, the same as a first-attempt
\* success would give, and sends nothing more; when fetch raises an Error
\* Payload it is the classification of the last attempt's outcome, never the
\* payload of an earlier attempt.
C22_LastAttemptDecides ==
  FetchEnded =>
    /\ Len(requests) = attempt + 1
    /\ Len(sleeps) = attempt
    /\ outcome.kind = "return" =>
         /\ ResponseKind(response) = "clean"
         /\ outcome = _normalize_success(ENDPOINT_MAP[call.name], response.body)
         /\ outcome.value.raw = response.body
    /\ RaisedAPIError =>
         /\ YieldsError(response)
         /\ outcome.error = ErrorOf(response)
         /\ ResponseKind(response) = "network" <=> outcome.error.code = C_network_error
         /\ ResponseKind(response) \in {"status", "embedded"} =>
              outcome.error.status_code = JInt(response.status)
    /\ (ResponseKind(response) = "clean" /\ response.body # NotJson) =>
         outcome = _normalize_success(ENDPOINT_MAP[call.name], response.body)

\* a retried status failure followed by a 404: fetch raised the 404 payload
C22_Witness ==
  /\ RaisedAPIError
  /\ Len(requests) = 2
  /\ streak = "status"
  /\ response.status = 404
  /\ outcome.error.status_code = JInt(404)
  /\ ~outcome.error.retryable

\* ---------------------------------------------------------- concurrency
\* Two fetch coroutines running on the same client object. In this
\* specification the variables that belong to one fetch frame (pc, resource,
\* params, request_params, attempt, last_error, sleeps, outcome) hold one
\* value per call, `response` holds the responses each call received so far,
\* `requests` the GETs each call sent, and `client` is the one object both
\* calls read as `self`.
Calls == {1, 2}

\* what each call was given (fetch's arguments, client.py lines 81-85)
ConcArgs ==
  (1 :> [resource |-> R_flights,
         params |-> JObj([flight_iata |-> JStr(<<"A","A","1">>)])])
    @@ (2 :> [resource |-> R_airports,
              params |-> JObj([access_key |-> JStr(<<"e","v","i","l">>), limit |-> JInt(5)])])

\* what the transport delivers here: two outcomes that are retried, one error
\* that is not, a clean success, an `error` the classifier raises on
ConcResponses ==
  {NetworkFault,
   HttpResponse(503, NoHeaders, NotJson),
   HttpResponse(404, NoHeaders, NotJson),
   HttpResponse(200, NoHeaders, JObj([data |-> JArr(<<JObj([flight |-> JInt(2)])>>)])),
   HttpResponse(200, NoHeaders, JObj([error |-> JStr(<<"b","o","o","m">>)]))}

\* `attempt` read as a single counter shared by the calls (that of call 1)
Mut_AttemptCounter_shared(i) == attempt[1]

\* the local variable `attempt` of call i's frame (client.py line 99)
AttemptCounter(i) == attempt[i]

\* both calls have run fetch's prelude (client.py lines 92-100) on a client
\* built from the environment
ConcInit ==
  /\ environ \in [api_key : {JStr(<<"k","1">>)}, max_retries : MaxRetriesValues,
                  backoff_seconds : BackoffValues]
  /\ client = from_env(environ).value
  /\ call = ConcArgs
  /\ arguments = JNull
  /\ params = [i \in Calls |-> MergeCredential(client, ConcArgs[i].params).params]
  /\ resource = [i \in Calls |-> ConcArgs[i].resource]
  /\ request_params =
       [i \in Calls |-> MergeCredential(client, ConcArgs[i].params).request_params]
  /\ pc = [i \in Calls |-> "attempting"]
  /\ attempt = [i \in Calls |-> 0]
  /\ last_error = [i \in Calls |-> JNull]
  /\ response = [i \in Calls |-> <<>>]
  /\ requests = [i \in Calls |-> <<>>]
  /\ sleeps = [i \in Calls |-> <<>>]
  /\ outcome = [i \in Calls |-> JNull]
  /\ fetch_calls = <<>>
  /\ streak = "none"
  /\ result = JNull

\* One GET of call i and the try statement around it (client.py lines 103-142).
ConcAttempt(i, resp) ==
  /\ pc[i] = "attempting"
  /\ requests' = [requests EXCEPT
                    ![i] = Append(@, GetRequest(client, resource[i], request_params[i]))]
  /\ response' = [response EXCEPT ![i] = Append(@, resp)]
  /\ LET out == TryAttempt(client, resource[i], resp, AttemptCounter(i))
     IN  IF out.kind = "retry"
           THEN /\ last_error' = [last_error EXCEPT ![i] = out.last_error]
                /\ pc' = [pc EXCEPT ![i] = "backoff"]
                /\ UNCHANGED outcome
           ELSE /\ outcome' = [outcome EXCEPT ![i] = out]
                /\ pc' = [pc EXCEPT ![i] = "returned"]
                /\ UNCHANGED last_error
  /\ UNCHANGED <<environ, client, call, arguments, params, resource, request_params,
                 attempt, sleeps, fetch_calls, streak, result>>

\* Call i after its except blocks (client.py lines 144-162).
ConcBackoff(i) ==
  /\ pc[i] = "backoff"
  /\ attempt' = [attempt EXCEPT ![i] = AttemptCounter(i) + 1]
  /\ IF attempt'[i] > client.max_retries
       THEN /\ outcome' = [outcome EXCEPT ![i] = RaiseAPIError(last_error[i])]
            /\ pc' = [pc EXCEPT ![i] = "returned"]
            /\ UNCHANGED sleeps
       ELSE /\ sleeps' = [sleeps EXCEPT ![i] = Append(@, SleepFor(client, attempt'[i]))]
            /\ pc' = [pc EXCEPT ![i] = "sleeping"]
            /\ UNCHANGED outcome
  /\ UNCHANGED <<environ, client, call, arguments, params, resource, request_params,
                 last_error, response, requests, fetch_calls, streak, result>>

\* Call i's asyncio.sleep returns (client.py line 162).
ConcWake(i) ==
  /\ pc[i] = "sleeping"
  /\ pc' = [pc EXCEPT ![i] = "attempting"]
  /\ UNCHANGED <<environ, client, call, arguments, params, resource, request_params,
                 attempt, last_error, response, requests, sleeps, fetch_calls, streak,
                 outcome, result>>

ConcNext ==
  \E i \in Calls :
    \/ \E resp \in ConcResponses : ConcAttempt(i, resp)
    \/ ConcBackoff(i)
    \/ ConcWake(i)

ConcSpec == ConcInit /\ [][ConcNext]_vars

\* What one fetch call running alone on client `self` has done once it has
\* received the responses hist[k..] with counter att and delays slp so far:
\* its counter, its delays and its outcome (null while it is still running).
RECURSIVE AloneFrom(_, _, _, _, _, _)
AloneFrom(self, res, hist, k, att, slp) ==
  IF k > Len(hist) THEN [attempt |-> att, sleeps |-> slp, outcome |-> JNull]
  ELSE LET out == TryAttempt(self, res, hist[k], att)
       IN  IF out.kind # "retry"
             THEN [attempt |-> att, sleeps |-> slp, outcome |-> out]
           ELSE IF att + 1 > self.max_retries
             THEN [attempt |-> att + 1, sleeps |-> slp,
                   outcome |-> RaiseAPIError(out.last_error)]
           ELSE AloneFrom(self, res, hist, k + 1, att + 1,
                          Append(slp, self.backoff_seconds * (2 ^ att)))

\* The same for call i of the concurrent run, from its own arguments and its
\* own responses; while the call stands between its except block and the
\* increment, the last response is decided but not yet counted.
Alone(i) ==
  LET self == from_env(environ).value
      hist == response[i]
  IN  IF pc[i] = "backoff"
        THEN AloneFrom(self, ConcArgs[i].resource, SubSeq(hist, 1, Len(hist) - 1), 1, 0, <<>>)
        ELSE AloneFrom(self, ConcArgs[i].resource, hist, 1, 0, <<>>)

\* C23: concurrent fetch calls on one client are independent: under every
\* interleaving each call's attempt counter, delays and terminal outcome are
\* what the call would have alone with its own arguments and its own
\* responses, its requests carry its own parameters, and the client's
\* configuration stays as constructed.
C23_Independent ==
  /\ client = from_env(environ).value
  /\ \A i \in Calls :
       /\ attempt[i] = Alone(i).attempt
       /\ sleeps[i] = Alone(i).sleeps
       /\ outcome[i] = Alone(i).outcome
       /\ pc[i] = "returned" <=> outcome[i] # JNull
       /\ Len(requests[i]) = Len(response[i])
       /\ \A k \in 1..Len(requests[i]) :
            /\ requests[i][k].url = client.base_url \o ConcArgs[i].resource
            /\ requests[i][k].params =
                 DictSet(ConcArgs[i].params, "access_key", JStr(client.api_key))

\* call 2 has failed on its first attempt while call 1 is in its second
\* backoff sleep
C23_Witness ==
  /\ pc[1] = "sleeping"
  /\ attempt[1] = 2
  /\ Len(sleeps[1]) = 2
  /\ pc[2] = "returned"
  /\ attempt[2] = 0
  /\ outcome[2].kind = "raise"
  /\ response[1][1] # response[2][1]

\* ------------------------------------------------- a changing environment
\* The process environment may change while the server runs (the API key is
\* set, replaced or removed), and handle_call_tool invocations overlap: while
\* one awaits its fetch another runs get_client, which has no await and so
\* runs in one step.
EnvKeyValues == ApiKeyValues \cup {JStr(<<"k","2">>)}

\* responses of this specification: a retried fault, a final error, a success
EnvResponses ==
  {NetworkFault,
   HttpResponse(404, NoHeaders, NotJson),
   HttpResponse(200, NoHeaders, JObj([data |-> JArr(<<JObj([flight |-> JInt(2)])>>)]))}

\* os.environ["AVIATIONSTACK_API_KEY"] changes (read by client.py line 64)
SetApiKey(value) ==
  /\ value # environ.api_key
  /\ environ' = [environ EXCEPT !.api_key = value]
  /\ UNCHANGED <<client, pc, call, arguments, params, resource, request_params,
                 attempt, last_error, response, requests, sleeps, fetch_calls, streak,
                 outcome, result>>

\* get_client run by an overlapping handle_call_tool (server.py line 297)
OverlappingGetClient ==
  /\ client' = get_client(client, environ).client
  /\ UNCHANGED <<environ, pc, call, arguments, params, resource, request_params,
                 attempt, last_error, response, requests, sleeps, fetch_calls, streak,
                 outcome, result>>

EnvNext ==
  \/ \E name \in ToolNameInputs, args \in ArgumentInputs : CallTool(name, args)
  \/ \E resp \in EnvResponses : Attempt(resp)
  \/ Backoff
  \/ Wake
  \/ \E value \in EnvKeyValues : SetApiKey(value)
  \/ OverlappingGetClient

EnvSpec == Init /\ [][EnvNext]_vars

\* C24: across any sequence or overlap of handle_call_tool invocations
\* get_client constructs a client successfully at most once: a client that
\* exists is never replaced, whatever the environment has become, and every
\* later call uses it; a client is constructed only from an API key present
\* at that moment; a call of a known tool made with no client and no API key
\* returns missing_api_key and leaves the client unset, so that a later call
\* constructs it once a key is there.
C24_SingleClient ==
  [][/\ client # JNull => client' = client
     /\ (client = JNull /\ client' # JNull) =>
          /\ Truthy(environ.api_key)
          /\ client'.api_key = environ.api_key.s
     /\ (pc \in {"idle", "returned"} /\ pc' = "attempting") =>
          /\ client' # JNull
          /\ client = JNull => Truthy(environ.api_key)
          /\ request_params'.o["access_key"] = JStr(client'.api_key)
     /\ (/\ pc \in {"idle", "returned"}
         /\ pc' = "returned"
         /\ call'.name \in DOMAIN ENDPOINT_MAP
         /\ (pc = "idle" \/ call' # call \/ result' # result)) =>
          /\ ~Truthy(environ.api_key)
          /\ client = JNull
          /\ client' = JNull
          /\ result'[1].text.o["error"].o["code"] = JStr(<<"m","i","s","s","i","n","g","_","a","p","i","_","k","e","y">>)]_vars

\* a call running on the client built from an earlier key after the
\* environment's key was replaced
C24_Witness ==
  /\ pc = "attempting"
  /\ client # JNull
  /\ client.api_key = <<"k","1">>
  /\ environ.api_key = JStr(<<"k","2">>)
  /\ request_params.o["access_key"] = JStr(<<"k","1">>)

\* the payloads the core builds without a response
FixedPayloads == {MissingApiKeyError, MaxRetriesExceededError}

\* C25: every Error Payload the core produces (embedded-body, HTTP-status,
\* network, missing_api_key, max_retries_exceeded) has rate_limited only with
\* retryable; a network_error payload has retryable true, rate_limited false
\* and no status code; so fetch retries exactly when attempt < max_retries and
\* the payload is retryable.
C25_RateLimitedImpliesRetryable ==
  /\ \A e \in FixedPayloads : e.rate_limited => e.retryable
  /\ (pc = "returned" /\ DOMAIN result[1].text.o = {"error"}
        /\ "rate_limited" \in DOMAIN result[1].text.o["error"].o) =>
       (result[1].text.o["error"].o["rate_limited"] = JBool(TRUE) =>
          result[1].text.o["error"].o["retryable"] = JBool(TRUE))
  /\ HoldsPayload =>
       /\ HeldPayload.rate_limited => HeldPayload.retryable
       /\ ResponseKind(response) = "network" <=> HeldPayload.code = C_network_error
       /\ HeldPayload.code = C_network_error =>
            /\ HeldPayload.retryable
            /\ ~HeldPayload.rate_limited
            /\ HeldPayload.status_code = JNull
       /\ pc = "backoff" <=> (attempt < client.max_retries /\ HeldPayload.retryable)

\* a 429 without Retry-After being retried: rate limited and retryable
C25_Witness ==
  /\ pc = "backoff"
  /\ HeldPayload.rate_limited
  /\ HeldPayload.retryable
  /\ HeldPayload.status_code = JInt(429)
  /\ HeldPayload.retry_after_seconds = JNull

====
